---- MODULE Spec2Model ----
(***************************************************************************)
(* Branch-policy and agent-pool resource handlers of the Azure DevOps      *)
(* provider (azuredevops/crud/branchpolicy/crud_branch_policy.go).         *)
(*                                                                         *)
(* A behaviour of Spec follows one resource instance (a branch policy or   *)
(* an agent pool) through the lifecycle calls of the host runtime.  A      *)
(* behaviour of SpecCodec applies the settings codec to one scope list.    *)
(*                                                                         *)
(* Go strings that the code parses (identifiers, import ids, project ids)  *)
(* are sequences of one-character strings; "" is << >>.                    *)
(***************************************************************************)
EXTENDS Integers, Sequences, FiniteSets, TLC

VARIABLES
    resource,   \* which resource definition the instance belongs to
    d,          \* the instance's ResourceData as the host runtime persists it
    policies,   \* remote system: policy configuration id -> configuration
    pools,      \* remote system: agent pool id -> agent pool
    last,       \* the last handler invocation: op, input, error, remote calls,
                \* the ResourceData as the handler left it, resources returned
    prev,       \* the invocation before the last one: op, error, and the
                \* ResourceData it left when it was a create
    codec       \* the settings codec applied to one scope list

vars == <<resource, d, policies, pools, last, prev, codec>>

-----------------------------------------------------------------------------
(* Bounds of the model *)

\* longest import-id string handed to the policy importer
MaxLen == 4
\* longest id string handed to the agent-pool passthrough importer
MaxIdLen == 2
\* largest identifier the remote system assigns
MaxId == 1
\* longest scope list given to the settings codec
MaxCodecScopes == 2

-----------------------------------------------------------------------------
(* Strings *)

Chars == {"p", "/", "1"}

Digits == {"0", "1", "2", "3", "4", "5", "6", "7", "8", "9"}

DigitVal(c) ==
    CASE c = "0" -> 0 [] c = "1" -> 1 [] c = "2" -> 2 [] c = "3" -> 3
      [] c = "4" -> 4 [] c = "5" -> 5 [] c = "6" -> 6 [] c = "7" -> 7
      [] c = "8" -> 8 [] c = "9" -> 9

DigitChar(n) ==
    CASE n = 0 -> "0" [] n = 1 -> "1" [] n = 2 -> "2" [] n = 3 -> "3"
      [] n = 4 -> "4" [] n = 5 -> "5" [] n = 6 -> "6" [] n = 7 -> "7"
      [] n = 8 -> "8" [] n = 9 -> "9"

\* all strings over Chars of length at most n
Strings(n) == UNION {[1..k -> Chars] : k \in 0..n}

\* the digits of strconv.Atoi's argument once an optional sign is dropped
AtoiBody(s) ==
    IF s /= << >> /\ s[1] \in {"+", "-"} THEN Tail(s) ELSE s

\* strconv.Atoi returns a nil error: an optional sign, then one or more
\* decimal digits (strings of the model are too short to leave the int range)
AtoiOk(s) ==
    /\ AtoiBody(s) /= << >>
    /\ \A i \in 1..Len(AtoiBody(s)) : AtoiBody(s)[i] \in Digits

RECURSIVE DecimalValue(_)
DecimalValue(s) ==
    IF s = << >> THEN 0
    ELSE 10 * DecimalValue(SubSeq(s, 1, Len(s) - 1)) + DigitVal(s[Len(s)])

\* strconv.Atoi's value; 0 along with the error
Atoi(s) ==
    IF ~AtoiOk(s) THEN 0
    ELSE IF s[1] = "-" THEN 0 - DecimalValue(AtoiBody(s))
    ELSE DecimalValue(AtoiBody(s))

RECURSIVE DecimalDigits(_)
DecimalDigits(n) ==
    IF n < 10 THEN <<DigitChar(n)>>
    ELSE DecimalDigits(n \div 10) \o <<DigitChar(n % 10)>>

\* strconv.Itoa
Itoa(n) ==
    IF n < 0 THEN <<"-">> \o DecimalDigits(0 - n) ELSE DecimalDigits(n)

\* index of the first "/" of s, 0 when there is none
FirstSlash(s) ==
    IF \E i \in 1..Len(s) : s[i] = "/"
    THEN CHOOSE i \in 1..Len(s) : s[i] = "/" /\ \A j \in 1..(i - 1) : s[j] /= "/"
    ELSE 0

\* strings.SplitN(s, "/", 2)
SplitN2(s) ==
    IF FirstSlash(s) = 0 THEN <<s>>
    ELSE <<SubSeq(s, 1, FirstSlash(s) - 1), SubSeq(s, FirstSlash(s) + 1, Len(s))>>

-----------------------------------------------------------------------------
(* Schema values *)

matchTypeExact == "Exact"
matchTypePrefix == "Prefix"

\* the policy type the resource definition is generated for (crudArgs.PolicyType)
MinReviewerCount == "fa4e907d-c16b-4a4c-9dfa-4906e5d171dd"

RepositoryIds == {"", "r"}
RefNames == {"", "m"}
MatchTypes == {matchTypeExact, matchTypePrefix}

\* one element of the schema's settings.scope list
ScopeEntries ==
    [repository_id : RepositoryIds, repository_ref : RefNames, match_type : MatchTypes]

ScopeLists(lo, hi) == UNION {[1..k -> ScopeEntries] : k \in lo..hi}

-----------------------------------------------------------------------------
(* Settings codec *)

\* tokens of a text: bare words, punctuation, JSON string literals
W(v) == [k |-> "word", v |-> v]
P(v) == [k |-> "punct", v |-> v]
S(v) == [k |-> "string", v |-> v]

\* fmt's %v of one key of a map[string]interface{}: key:value, the value bare
FmtVField(key, v) ==
    <<W(key), P(":")>> \o (IF v = "" THEN << >> ELSE <<W(v)>>)

\* fmt's %v of one scope map: map[k:v k:v k:v], keys sorted
FmtVScope(e) ==
    <<W("map"), P("[")>> \o FmtVField("matchKind", e.matchKind)
        \o FmtVField("refName", e.refName)
        \o FmtVField("repositoryId", e.repositoryId) \o <<P("]")>>

RECURSIVE FmtVScopes(_)
FmtVScopes(scopes) ==
    IF scopes = << >> THEN << >>
    ELSE FmtVScope(Head(scopes)) \o FmtVScopes(Tail(scopes))

\* fmt.Sprintf("%v", settings) of the settings map: map[scope:[...]]
FmtV(settings) ==
    <<W("map"), P("["), W("scope"), P(":"), P("[")>>
        \o FmtVScopes(settings.scope) \o <<P("]"), P("]")>>

\* a JSON object {"k":"v","k":"v","k":"v"} of three string members
JsonIsScope(t) ==
    /\ Len(t) = 13
    /\ t[1] = P("{") /\ t[13] = P("}")
    /\ \A i \in {3, 7, 11} : t[i] = P(":")
    /\ \A i \in {5, 9} : t[i] = P(",")
    /\ \A i \in {2, 4, 6, 8, 10, 12} : t[i].k = "string"

\* the member of a parsed JSON scope object with the given key ("" when absent)
JsonMember(t, key) ==
    IF \E i \in {2, 6, 10} : t[i].v = key
    THEN t[(CHOOSE i \in {2, 6, 10} : t[i].v = key /\ \A j \in {2, 6, 10} : t[j].v = key => j <= i) + 2].v
    ELSE ""

\* a scope object decoded into commonPolicySettings.Scopes' element type
JsonScope(t) ==
    [RepositoryID |-> JsonMember(t, "repositoryId"),
     RepositoryRefName |-> JsonMember(t, "refName"),
     MatchType |-> JsonMember(t, "matchKind")]

\* the tokens between [ and ] are a comma-separated list of scope objects
RECURSIVE JsonIsScopeList(_)
JsonIsScopeList(t) ==
    \/ t = << >>
    \/ JsonIsScope(t)
    \/ /\ Len(t) > 14
       /\ JsonIsScope(SubSeq(t, 1, 13))
       /\ t[14] = P(",")
       /\ JsonIsScopeList(SubSeq(t, 15, Len(t)))

RECURSIVE JsonScopeList(_)
JsonScopeList(t) ==
    IF t = << >> THEN << >>
    ELSE IF Len(t) = 13 THEN <<JsonScope(t)>>
    ELSE <<JsonScope(SubSeq(t, 1, 13))>> \o JsonScopeList(SubSeq(t, 15, Len(t)))

\* the text is the JSON document {"scope":[...]}
JsonIsSettings(text) ==
    /\ Len(text) >= 6
    /\ SubSeq(text, 1, 4) = <<P("{"), S("scope"), P(":"), P("[")>>
    /\ SubSeq(text, Len(text) - 1, Len(text)) = <<P("]"), P("}")>>
    /\ JsonIsScopeList(SubSeq(text, 5, Len(text) - 2))

\* json.Unmarshal(text, &policySettings) with the error dropped: a text that
\* is not JSON leaves policySettings at its zero value
JsonUnmarshal(text) ==
    IF JsonIsSettings(text)
    THEN [Scopes |-> JsonScopeList(SubSeq(text, 5, Len(text) - 2))]
    ELSE [Scopes |-> << >>]

flattenSettings(policyConfig) ==
    LET policySettings == JsonUnmarshal(FmtV(policyConfig.Settings))
        scopes == [index \in 1..Len(policySettings.Scopes) |->
                     [scope |-> [repository_id |-> policySettings.Scopes[index].RepositoryID,
                                 repository_ref |-> policySettings.Scopes[index].RepositoryRefName,
                                 match_type |-> policySettings.Scopes[index].MatchType]]]
    IN  <<[scope |-> scopes]>>

expandSettings(rd) ==
    LET settingsScopes == rd.settings[1].scope
    IN  [scope |-> [index \in 1..Len(settingsScopes) |->
                      [repositoryId |-> settingsScopes[index].repository_id,
                       refName |-> settingsScopes[index].repository_ref,
                       matchKind |-> settingsScopes[index].match_type]]]

-----------------------------------------------------------------------------
(* Host runtime: resource data and planned configurations *)

\* one call made by a handler: a remote client call with the status the
\* remote answered ("ok", "notfound", "failed"), or a flatten, which is local
Call(name, status) == [name |-> name, status |-> status]
Local(name) == Call(name, "local")

\* the remote client calls among the calls of one handler invocation
RemoteCalls(calls) == SelectSeq(calls, LAMBDA c : c.status /= "local")

\* a ResourceData of the policy schema with no identifier and nothing set:
\* enabled and blocking read as their default, settings as the empty list
AbsentPolicy ==
    [id |-> << >>, project_id |-> << >>, enabled |-> TRUE, blocking |-> TRUE,
     settings |-> << >>]

\* a ResourceData of the agent-pool schema with no identifier and nothing set
AbsentPool ==
    [id |-> << >>, name |-> "", pool_type |-> "automation", auto_provision |-> FALSE]

Absent(res) == IF res = "policy" THEN AbsentPolicy ELSE AbsentPool

\* d.SetId(""): a ResourceData left without identifier is dropped from the state
Persist(res, rd) == IF rd.id = << >> THEN Absent(res) ELSE rd

\* scope lists the planned policy configurations are written with: one
\* entry, and two entries
PlanScopes ==
    {<<[repository_id |-> "r", repository_ref |-> "m", match_type |-> matchTypeExact]>>,
     <<[repository_id |-> "r", repository_ref |-> "m", match_type |-> matchTypeExact],
       [repository_id |-> "", repository_ref |-> "", match_type |-> matchTypePrefix]>>}

\* schema-valid policy configurations: one settings block, one or more scopes
PolicyPlans ==
    [project_id : {<<"p">>}, enabled : BOOLEAN, blocking : BOOLEAN,
     scope : PlanScopes]

\* schema-valid agent-pool configurations
PoolPlans ==
    [name : {"a", "b"}, pool_type : {"automation", "deployment"},
     auto_provision : BOOLEAN]

\* what one handler invocation leaves behind
Ret(err, rd, calls, store, ret) ==
    [err |-> err, d |-> rd, calls |-> calls, store |-> store, ret |-> ret]

-----------------------------------------------------------------------------
(* Remote client: policy configurations.  A pointer is << >> (nil) or <<v>>. *)

PolicyLookup(store, project, id) ==
    {c \in store : c.Id = <<id>> /\ c.Project = project}

CreatePolicyConfiguration(store, config, project, newId, fault) ==
    IF fault THEN [status |-> "failed", store |-> store]
    ELSE LET created == [Id |-> <<newId>>, IsEnabled |-> config.IsEnabled,
                         IsBlocking |-> config.IsBlocking, Type |-> config.Type,
                         Settings |-> config.Settings, Project |-> project]
         IN  [status |-> "ok", value |-> created, store |-> store \cup {created}]

GetPolicyConfiguration(store, project, id, fault) ==
    IF fault THEN [status |-> "failed"]
    ELSE IF PolicyLookup(store, project, id) = {} THEN [status |-> "notfound"]
    ELSE [status |-> "ok", value |-> CHOOSE c \in PolicyLookup(store, project, id) : TRUE]

UpdatePolicyConfiguration(store, configurationId, config, project, fault) ==
    IF fault \/ configurationId = << >> THEN [status |-> "failed", store |-> store]
    ELSE IF PolicyLookup(store, project, configurationId[1]) = {}
    THEN [status |-> "notfound", store |-> store]
    ELSE LET updated == [Id |-> configurationId, IsEnabled |-> config.IsEnabled,
                         IsBlocking |-> config.IsBlocking, Type |-> config.Type,
                         Settings |-> config.Settings, Project |-> project]
         IN  [status |-> "ok", value |-> updated,
              store |-> (store \ PolicyLookup(store, project, configurationId[1]))
                            \cup {updated}]

DeletePolicyConfiguration(store, configurationId, project, fault) ==
    IF fault \/ configurationId = << >> THEN [status |-> "failed", store |-> store]
    ELSE IF PolicyLookup(store, project, configurationId[1]) = {}
    THEN [status |-> "notfound", store |-> store]
    ELSE [status |-> "ok",
          store |-> store \ PolicyLookup(store, project, configurationId[1])]

\* utils.ResponseWasNotFound: the error is the remote's "not found"
ResponseWasNotFound(status) == status = "notfound"

-----------------------------------------------------------------------------
(* Generic policy resource *)

BaseFlattenFunc(rd, policyConfig, projectID) ==
    [id |-> Itoa(policyConfig.Id[1]),
     project_id |-> projectID,
     enabled |-> policyConfig.IsEnabled,
     blocking |-> policyConfig.IsBlocking,
     settings |-> flattenSettings(policyConfig)]

BaseExpandFunc(rd, typeID) ==
    IF rd.settings = << >>
    THEN [err |-> "panic: index out of range"]
    ELSE IF rd.id /= << >> /\ ~AtoiOk(rd.id)
    THEN [err |-> "Error parsing policy configuration ID"]
    ELSE [err |-> "",
          config |-> [Id |-> IF rd.id /= << >> THEN <<Atoi(rd.id)>> ELSE << >>,
                      IsEnabled |-> rd.enabled,
                      IsBlocking |-> rd.blocking,
                      Type |-> typeID,
                      Settings |-> expandSettings(rd)],
          projectID |-> rd.project_id]


\* genPolicyCreateFunc setting the identifier before the remote error is looked at
genPolicyCreateFunc_IdBeforeCheck(rd, store, newId, fault) ==
    LET ex == BaseExpandFunc(rd, MinReviewerCount)
    IN  IF ex.err /= "" THEN Ret(ex.err, rd, << >>, store, << >>)
        ELSE LET r == CreatePolicyConfiguration(store, ex.config, ex.projectID, newId, fault)
             IN  IF r.status /= "ok"
                 THEN Ret("Error creating policy in Azure DevOps",
                          [rd EXCEPT !.id = Itoa(newId)],
                          <<Call("CreatePolicyConfiguration", r.status)>>, store, << >>)
                 ELSE Ret("", BaseFlattenFunc(rd, r.value, ex.projectID),
                          <<Call("CreatePolicyConfiguration", r.status), Local("FlattenFunc")>>, r.store, << >>)

genPolicyCreateFunc(rd, store, newId, fault) ==
    LET ex == BaseExpandFunc(rd, MinReviewerCount)
    IN  IF ex.err /= "" THEN Ret(ex.err, rd, << >>, store, << >>)
        ELSE LET r == CreatePolicyConfiguration(store, ex.config, ex.projectID, newId, fault)
             IN  IF r.status /= "ok"
                 THEN Ret("Error creating policy in Azure DevOps", rd,
                          <<Call("CreatePolicyConfiguration", r.status)>>, store, << >>)
                 ELSE Ret("", BaseFlattenFunc(rd, r.value, ex.projectID),
                          <<Call("CreatePolicyConfiguration", r.status), Local("FlattenFunc")>>, r.store, << >>)


\* genPolicyReadFunc without the not-found branch: every remote error is an error
genPolicyReadFunc_NotFoundIsError(rd, store, fault) ==
    IF ~AtoiOk(rd.id)
    THEN Ret("Error converting policy ID to an integer", rd, << >>, store, << >>)
    ELSE LET r == GetPolicyConfiguration(store, rd.project_id, Atoi(rd.id), fault)
         IN  IF r.status /= "ok"
             THEN Ret("Error looking up build policy configuration", rd,
                      <<Call("GetPolicyConfiguration", r.status)>>, store, << >>)
             ELSE Ret("", BaseFlattenFunc(rd, r.value, rd.project_id),
                      <<Call("GetPolicyConfiguration", r.status), Local("FlattenFunc")>>, store, << >>)

\* genPolicyReadFunc fetching without the project read from the ResourceData
genPolicyReadFunc_NoProject(rd, store, fault) ==
    IF ~AtoiOk(rd.id)
    THEN Ret("Error converting policy ID to an integer", rd, << >>, store, << >>)
    ELSE LET r == GetPolicyConfiguration(store, << >>, Atoi(rd.id), fault)
         IN  IF ResponseWasNotFound(r.status)
             THEN Ret("", [rd EXCEPT !.id = << >>], <<Call("GetPolicyConfiguration", r.status)>>,
                      store, << >>)
             ELSE IF r.status /= "ok"
             THEN Ret("Error looking up build policy configuration", rd,
                      <<Call("GetPolicyConfiguration", r.status)>>, store, << >>)
             ELSE Ret("", BaseFlattenFunc(rd, r.value, << >>),
                      <<Call("GetPolicyConfiguration", r.status), Local("FlattenFunc")>>, store, << >>)

genPolicyReadFunc(rd, store, fault) ==
    IF ~AtoiOk(rd.id)
    THEN Ret("Error converting policy ID to an integer", rd, << >>, store, << >>)
    ELSE LET r == GetPolicyConfiguration(store, rd.project_id, Atoi(rd.id), fault)
         IN  IF ResponseWasNotFound(r.status)
             THEN Ret("", [rd EXCEPT !.id = << >>], <<Call("GetPolicyConfiguration", r.status)>>,
                      store, << >>)
             ELSE IF r.status /= "ok"
             THEN Ret("Error looking up build policy configuration", rd,
                      <<Call("GetPolicyConfiguration", r.status)>>, store, << >>)
             ELSE Ret("", BaseFlattenFunc(rd, r.value, rd.project_id),
                      <<Call("GetPolicyConfiguration", r.status), Local("FlattenFunc")>>, store, << >>)


\* genPolicyUpdateFunc ending in a read of the configuration, as the agent-pool
\* update does
genPolicyUpdateFunc_ThenRead(rd, store, fault) ==
    LET ex == BaseExpandFunc(rd, MinReviewerCount)
    IN  IF ex.err /= "" THEN Ret(ex.err, rd, << >>, store, << >>)
        ELSE LET r == UpdatePolicyConfiguration(store, ex.config.Id, ex.config,
                                                ex.projectID, fault)
             IN  IF r.status /= "ok"
                 THEN Ret("Error updating policy in Azure DevOps", rd,
                          <<Call("UpdatePolicyConfiguration", r.status)>>, store, << >>)
                 ELSE LET rr == genPolicyReadFunc(rd, r.store, fault)
                      IN  Ret(rr.err, rr.d,
                              <<Call("UpdatePolicyConfiguration", r.status)>> \o rr.calls,
                              rr.store, << >>)

genPolicyUpdateFunc(rd, store, fault) ==
    LET ex == BaseExpandFunc(rd, MinReviewerCount)
    IN  IF ex.err /= "" THEN Ret(ex.err, rd, << >>, store, << >>)
        ELSE LET r == UpdatePolicyConfiguration(store, ex.config.Id, ex.config,
                                                ex.projectID, fault)
             IN  IF r.status /= "ok"
                 THEN Ret("Error updating policy in Azure DevOps", rd,
                          <<Call("UpdatePolicyConfiguration", r.status)>>, store, << >>)
                 ELSE Ret("", BaseFlattenFunc(rd, r.value, ex.projectID),
                          <<Call("UpdatePolicyConfiguration", r.status), Local("FlattenFunc")>>, r.store, << >>)

genPolicyDeleteFunc(rd, store, fault) ==
    LET ex == BaseExpandFunc(rd, MinReviewerCount)
    IN  IF ex.err /= "" THEN Ret(ex.err, rd, << >>, store, << >>)
        ELSE LET r == DeletePolicyConfiguration(store, ex.config.Id, ex.projectID, fault)
             IN  IF r.status /= "ok"
                 THEN Ret("Error deleting policy in Azure DevOps", rd,
                          <<Call("DeletePolicyConfiguration", r.status)>>, store, << >>)
                 ELSE Ret("", rd, <<Call("DeletePolicyConfiguration", r.status)>>, r.store, << >>)


\* genPolicyImporter writing the project before the identifier part is parsed
genPolicyImporter_SetBeforeCheck(rd, store) ==
    LET parts == SplitN2(rd.id)
    IN  IF Len(parts) /= 2 \/ parts[1] = << >> \/ parts[2] = << >>
        THEN Ret("unexpected format of ID", rd, << >>, store, << >>)
        ELSE IF ~AtoiOk(parts[2])
        THEN Ret("Policy configuration ID isn't a valid Int",
                 [rd EXCEPT !.project_id = parts[1]], << >>, store, << >>)
        ELSE LET out == [rd EXCEPT !.project_id = parts[1], !.id = parts[2]]
             IN  Ret("", out, << >>, store, <<out>>)

\* genPolicyImporter setting the identifier only
genPolicyImporter_NoProject(rd, store) ==
    LET parts == SplitN2(rd.id)
    IN  IF Len(parts) /= 2 \/ parts[1] = << >> \/ parts[2] = << >>
        THEN Ret("unexpected format of ID", rd, << >>, store, << >>)
        ELSE IF ~AtoiOk(parts[2])
        THEN Ret("Policy configuration ID isn't a valid Int", rd, << >>, store, << >>)
        ELSE LET out == [rd EXCEPT !.id = parts[2]]
             IN  Ret("", out, << >>, store, <<out>>)

genPolicyImporter(rd, store) ==
    LET parts == SplitN2(rd.id)
    IN  IF Len(parts) /= 2 \/ parts[1] = << >> \/ parts[2] = << >>
        THEN Ret("unexpected format of ID", rd, << >>, store, << >>)
        ELSE IF ~AtoiOk(parts[2])
        THEN Ret("Policy configuration ID isn't a valid Int", rd, << >>, store, << >>)
        ELSE LET out == [rd EXCEPT !.project_id = parts[1], !.id = parts[2]]
             IN  Ret("", out, << >>, store, <<out>>)

-----------------------------------------------------------------------------
(* Remote client: agent pools *)

PoolLookup(store, id) == {a \in store : a.Id = <<id>>}

AddAgentPool(store, pool, newId, fault) ==
    IF fault THEN [status |-> "failed", store |-> store]
    ELSE LET created == [pool EXCEPT !.Id = <<newId>>]
         IN  [status |-> "ok", value |-> created, store |-> store \cup {created}]

GetAgentPool(store, poolId, fault) ==
    IF fault THEN [status |-> "failed"]
    ELSE IF PoolLookup(store, poolId) = {} THEN [status |-> "notfound"]
    ELSE [status |-> "ok", value |-> CHOOSE a \in PoolLookup(store, poolId) : TRUE]

UpdateAgentPool(store, poolId, pool, fault) ==
    IF fault THEN [status |-> "failed", store |-> store]
    ELSE IF PoolLookup(store, poolId[1]) = {} THEN [status |-> "notfound", store |-> store]
    ELSE LET updated == [Id |-> poolId, Name |-> pool.Name, PoolType |-> pool.PoolType,
                         AutoProvision |-> pool.AutoProvision]
         IN  [status |-> "ok", value |-> updated,
              store |-> (store \ PoolLookup(store, poolId[1])) \cup {updated}]

DeleteAgentPool(store, poolId, fault) ==
    IF fault THEN [status |-> "failed", store |-> store]
    ELSE IF PoolLookup(store, poolId) = {} THEN [status |-> "notfound", store |-> store]
    ELSE [status |-> "ok", store |-> store \ PoolLookup(store, poolId)]

-----------------------------------------------------------------------------
(* Agent-pool resource *)

flattenAzureAgentPool(rd, agentPool) ==
    [id |-> Itoa(agentPool.Id[1]),
     name |-> agentPool.Name,
     pool_type |-> agentPool.PoolType,
     auto_provision |-> agentPool.AutoProvision]


\* expandAgentPool dropping strconv.Atoi's error whatever forCreate is
expandAgentPool_Lenient(rd, forCreate) ==
    [err |-> "",
     pool |-> [Id |-> <<Atoi(rd.id)>>, Name |-> rd.name,
               PoolType |-> rd.pool_type, AutoProvision |-> rd.auto_provision]]

expandAgentPool(rd, forCreate) ==
    IF ~forCreate /\ ~AtoiOk(rd.id)
    THEN [err |-> "Error getting agent pool Id"]
    ELSE [err |-> "",
          pool |-> [Id |-> <<Atoi(rd.id)>>, Name |-> rd.name,
                    PoolType |-> rd.pool_type, AutoProvision |-> rd.auto_provision]]

createAzureAgentPool(store, agentPool, newId, fault) ==
    AddAgentPool(store, agentPool, newId, fault)

azureAgentPoolRead(store, poolID, fault) ==
    GetAgentPool(store, poolID, fault)

azureAgentPoolUpdate(store, agentPool, fault) ==
    UpdateAgentPool(store, agentPool.Id,
                    [Name |-> agentPool.Name, PoolType |-> agentPool.PoolType,
                     AutoProvision |-> agentPool.AutoProvision], fault)

resourceAzureAgentPoolRead(rd, store, fault) ==
    IF ~AtoiOk(rd.id)
    THEN Ret("Error getting agent pool Id", rd, << >>, store, << >>)
    ELSE LET r == azureAgentPoolRead(store, Atoi(rd.id), fault)
         IN  IF r.status /= "ok"
             THEN Ret("Error looking up agent pool", rd, <<Call("GetAgentPool", r.status)>>, store, << >>)
             ELSE Ret("", flattenAzureAgentPool(rd, r.value),
                      <<Call("GetAgentPool", r.status), Local("flattenAzureAgentPool")>>, store, << >>)

resourceAzureAgentPoolCreate(rd, store, newId, fault, readFault) ==
    LET ex == expandAgentPool(rd, TRUE)
    IN  IF ex.err /= ""
        THEN Ret("Error converting terraform data model to AzDO agentPool reference",
                 rd, << >>, store, << >>)
        ELSE LET r == createAzureAgentPool(store, ex.pool, newId, fault)
             IN  IF r.status /= "ok"
                 THEN Ret("Error creating agent pool in Azure DevOps", rd,
                          <<Call("AddAgentPool", r.status)>>, store, << >>)
                 ELSE LET rr == resourceAzureAgentPoolRead(
                                    flattenAzureAgentPool(rd, r.value), r.store, readFault)
                      IN  Ret(rr.err, rr.d,
                              <<Call("AddAgentPool", r.status), Local("flattenAzureAgentPool")>> \o rr.calls,
                              rr.store, << >>)

resourceAzureAgentPoolUpdate(rd, store, fault, readFault) ==
    LET ex == expandAgentPool(rd, FALSE)
    IN  IF ex.err /= ""
        THEN Ret("Error converting terraform data model to AzDO agent pool reference",
                 rd, << >>, store, << >>)
        ELSE LET r == azureAgentPoolUpdate(store, ex.pool, fault)
             IN  IF r.status /= "ok"
                 THEN Ret("Error updating agent pool in Azure DevOps", rd,
                          <<Call("UpdateAgentPool", r.status)>>, store, << >>)
                 ELSE LET rr == resourceAzureAgentPoolRead(rd, r.store, readFault)
                      IN  Ret(rr.err, rr.d, <<Call("UpdateAgentPool", r.status)>> \o rr.calls,
                              rr.store, << >>)

resourceAzureAgentPoolDelete(rd, store, fault) ==
    IF ~AtoiOk(rd.id)
    THEN Ret("Error getting agent pool Id", rd, << >>, store, << >>)
    ELSE LET r == DeleteAgentPool(store, Atoi(rd.id), fault)
         IN  Ret(IF r.status = "ok" THEN "" ELSE r.status, rd,
                 <<Call("DeleteAgentPool", r.status)>>, r.store, << >>)

\* schema.ImportStatePassthrough: the ResourceData is returned as it came
ImportStatePassthrough(rd, store) == Ret("", rd, << >>, store, <<rd>>)

-----------------------------------------------------------------------------
(* The lifecycle calls of the host runtime on one resource instance *)

Before(call) ==
    [op |-> call.op, err |-> call.err,
     d |-> IF call.op = "create" THEN call.d ELSE Absent(resource)]

Called(op, rd, r) ==
    [op |-> op, in |-> rd, err |-> r.err, calls |-> r.calls, d |-> r.d, ret |-> r.ret]

\* identifiers the remote system may assign to a new object
FreeIds(store) == {n \in 1..MaxId : \A c \in store : c.Id /= <<n>>}

\* the ResourceData a create or update handler receives: the planned
\* configuration written over the state (project_id and pool_type force a new
\* resource, so an update keeps them)
PlannedPolicy(rd, plan) ==
    [id |-> rd.id,
     project_id |-> IF rd.id = << >> THEN plan.project_id ELSE rd.project_id,
     enabled |-> plan.enabled, blocking |-> plan.blocking,
     settings |-> <<[scope |-> plan.scope]>>]

PlannedPool(rd, plan) ==
    [id |-> rd.id, name |-> plan.name,
     pool_type |-> IF rd.id = << >> THEN plan.pool_type ELSE rd.pool_type,
     auto_provision |-> plan.auto_provision]

PolicyCreate ==
    /\ resource = "policy" /\ d.id = << >>
    /\ \E plan \in PolicyPlans, newId \in FreeIds(policies), fault \in BOOLEAN :
         LET rd == PlannedPolicy(d, plan)
             r == genPolicyCreateFunc(rd, policies, newId, fault)
         IN  /\ d' = Persist(resource, r.d)
             /\ policies' = r.store
             /\ last' = Called("create", rd, r)
             /\ prev' = Before(last)
    /\ UNCHANGED <<resource, pools, codec>>

PolicyRead ==
    /\ resource = "policy" /\ d.id /= << >>
    /\ \E fault \in BOOLEAN :
         LET r == genPolicyReadFunc(d, policies, fault)
         IN  /\ d' = Persist(resource, r.d)
             /\ policies' = r.store
             /\ last' = Called("read", d, r)
             /\ prev' = Before(last)
    /\ UNCHANGED <<resource, pools, codec>>

PolicyUpdate ==
    /\ resource = "policy" /\ d.id /= << >>
    /\ \E plan \in PolicyPlans, fault \in BOOLEAN :
         LET rd == PlannedPolicy(d, plan)
             r == genPolicyUpdateFunc(rd, policies, fault)
         IN  /\ d' = Persist(resource, r.d)
             /\ policies' = r.store
             /\ last' = Called("update", rd, r)
             /\ prev' = Before(last)
    /\ UNCHANGED <<resource, pools, codec>>

\* after a delete that returned no error the host runtime removes the entry
PolicyDelete ==
    /\ resource = "policy" /\ d.id /= << >>
    /\ \E fault \in BOOLEAN :
         LET r == genPolicyDeleteFunc(d, policies, fault)
         IN  /\ d' = IF r.err = "" THEN Absent(resource) ELSE Persist(resource, r.d)
             /\ policies' = r.store
             /\ last' = Called("delete", d, r)
             /\ prev' = Before(last)
    /\ UNCHANGED <<resource, pools, codec>>

\* import adopts a remote object for an instance the host runtime has not
\* touched yet: the importer runs on a fresh ResourceData whose identifier is
\* the import string; a failed import leaves nothing in the state
PolicyImport ==
    /\ resource = "policy" /\ d.id = << >> /\ last.op = "none"
    /\ \E id \in Strings(MaxLen) :
         LET rd == [AbsentPolicy EXCEPT !.id = id]
             r == genPolicyImporter(rd, policies)
         IN  /\ d' = IF r.err = "" THEN Persist(resource, r.d) ELSE d
             /\ policies' = r.store
             /\ last' = Called("import", rd, r)
             /\ prev' = Before(last)
    /\ UNCHANGED <<resource, pools, codec>>

PoolCreate ==
    /\ resource = "agent_pool" /\ d.id = << >>
    /\ \E plan \in PoolPlans, newId \in FreeIds(pools), fault \in BOOLEAN,
          readFault \in BOOLEAN :
         LET rd == PlannedPool(d, plan)
             r == resourceAzureAgentPoolCreate(rd, pools, newId, fault, readFault)
         IN  /\ d' = Persist(resource, r.d)
             /\ pools' = r.store
             /\ last' = Called("create", rd, r)
             /\ prev' = Before(last)
    /\ UNCHANGED <<resource, policies, codec>>

PoolRead ==
    /\ resource = "agent_pool" /\ d.id /= << >>
    /\ \E fault \in BOOLEAN :
         LET r == resourceAzureAgentPoolRead(d, pools, fault)
         IN  /\ d' = Persist(resource, r.d)
             /\ pools' = r.store
             /\ last' = Called("read", d, r)
             /\ prev' = Before(last)
    /\ UNCHANGED <<resource, policies, codec>>

PoolUpdate ==
    /\ resource = "agent_pool" /\ d.id /= << >>
    /\ \E plan \in PoolPlans, fault \in BOOLEAN, readFault \in BOOLEAN :
         LET rd == PlannedPool(d, plan)
             r == resourceAzureAgentPoolUpdate(rd, pools, fault, readFault)
         IN  /\ d' = Persist(resource, r.d)
             /\ pools' = r.store
             /\ last' = Called("update", rd, r)
             /\ prev' = Before(last)
    /\ UNCHANGED <<resource, policies, codec>>

PoolDelete ==
    /\ resource = "agent_pool" /\ d.id /= << >>
    /\ \E fault \in BOOLEAN :
         LET r == resourceAzureAgentPoolDelete(d, pools, fault)
         IN  /\ d' = IF r.err = "" THEN Absent(resource) ELSE Persist(resource, r.d)
             /\ pools' = r.store
             /\ last' = Called("delete", d, r)
             /\ prev' = Before(last)
    /\ UNCHANGED <<resource, policies, codec>>

PoolImport ==
    /\ resource = "agent_pool" /\ d.id = << >> /\ last.op = "none"
    /\ \E id \in Strings(MaxIdLen) \ {<< >>} :
         LET rd == [AbsentPool EXCEPT !.id = id]
             r == ImportStatePassthrough(rd, pools)
         IN  /\ d' = Persist(resource, r.d)
             /\ pools' = r.store
             /\ last' = Called("import", rd, r)
             /\ prev' = Before(last)
    /\ UNCHANGED <<resource, policies, codec>>

-----------------------------------------------------------------------------
(* The settings codec applied to one scope list *)

CodecIdle == [pc |-> "idle", s |-> << >>, payload |-> [scope |-> << >>], out |-> << >>]

CodecExpand ==
    /\ codec.pc = "schema"
    /\ codec' = [codec EXCEPT !.pc = "payload",
                              !.payload = expandSettings([settings |-> <<[scope |-> codec.s]>>])]
    /\ UNCHANGED <<resource, d, policies, pools, last, prev>>

CodecFlatten ==
    /\ codec.pc = "payload"
    /\ codec' = [codec EXCEPT !.pc = "flattened",
                              !.out = flattenSettings([Settings |-> codec.payload])]
    /\ UNCHANGED <<resource, d, policies, pools, last, prev>>

-----------------------------------------------------------------------------
(* Specifications *)

\* objects that exist remotely before the instance is first touched
ExistingPolicies ==
    {{}} \cup
    {{[Id |-> <<n>>, IsEnabled |-> plan.enabled, IsBlocking |-> plan.blocking,
       Type |-> MinReviewerCount,
       Settings |-> expandSettings([settings |-> <<[scope |-> plan.scope]>>]),
       Project |-> plan.project_id]} : n \in 1..MaxId, plan \in PolicyPlans}

ExistingPools ==
    {{}} \cup
    {{[Id |-> <<n>>, Name |-> plan.name, PoolType |-> plan.pool_type,
       AutoProvision |-> plan.auto_provision]} : n \in 1..MaxId, plan \in PoolPlans}

Init ==
    /\ resource \in {"policy", "agent_pool"}
    /\ d = Absent(resource)
    /\ policies \in (IF resource = "policy" THEN ExistingPolicies ELSE {{}})
    /\ pools \in (IF resource = "agent_pool" THEN ExistingPools ELSE {{}})
    /\ last = [op |-> "none", in |-> Absent(resource), err |-> "", calls |-> << >>,
               d |-> Absent(resource), ret |-> << >>]
    /\ prev = [op |-> "none", err |-> "", d |-> Absent(resource)]
    /\ codec = CodecIdle

Next ==
    \/ PolicyCreate
    \/ PolicyRead
    \/ PolicyUpdate
    \/ PolicyDelete
    \/ PolicyImport
    \/ PoolCreate
    \/ PoolRead
    \/ PoolUpdate
    \/ PoolDelete
    \/ PoolImport

Spec == Init /\ [][Next]_vars

InitCodec ==
    /\ resource = "policy"
    /\ d = AbsentPolicy
    /\ policies = {}
    /\ pools = {}
    /\ last = [op |-> "none", in |-> AbsentPolicy, err |-> "", calls |-> << >>,
               d |-> AbsentPolicy, ret |-> << >>]
    /\ prev = [op |-> "none", err |-> "", d |-> AbsentPolicy]
    /\ codec \in {[CodecIdle EXCEPT !.pc = "schema", !.s = s] :
                    s \in ScopeLists(0, MaxCodecScopes)}

NextCodec ==
    \/ CodecExpand
    \/ CodecFlatten

SpecCodec == InitCodec /\ [][NextCodec]_vars

-----------------------------------------------------------------------------
(* Properties *)

LifecycleOps == {"create", "read", "update", "delete"}

\* the status the remote answered the first remote call of the last invocation
FirstStatus == IF last.calls = << >> THEN "none" ELSE last.calls[1].status

Flattened == \E i \in 1..Len(last.calls) : last.calls[i].status = "local"

\* C1: a policy read whose stored identifier parses as an integer and whose
\* remote fetch reports "not found" returns no error, clears the identifier
\* (the resource is absent afterwards) and flattens nothing.
C1_ReadNotFoundClearsIdentity ==
    (resource = "policy" /\ last.op = "read" /\ AtoiOk(last.in.id)
        /\ FirstStatus = "notfound")
    => /\ last.err = ""
       /\ last.d.id = << >>
       /\ last.d = [last.in EXCEPT !.id = << >>]
       /\ d = AbsentPolicy
       /\ ~Flattened

C1_Witness ==
    /\ resource = "policy" /\ last.op = "read"
    /\ AtoiOk(last.in.id) /\ FirstStatus = "notfound"

\* C2: a policy create whose remote create call returns an error returns an
\* error and assigns no identity: the identifier is still empty and flatten
\* wrote nothing; the identifier is non-empty only after a successful remote
\* create.
C2_CreateErrorAssignsNoIdentity ==
    (resource = "policy" /\ last.op = "create")
    => /\ FirstStatus \in {"failed", "notfound"}
          => /\ last.err /= ""
             /\ last.d.id = << >>
             /\ last.d = last.in
             /\ ~Flattened
             /\ d = AbsentPolicy
       /\ last.d.id /= << >> => (FirstStatus = "ok" /\ last.err = "")

C2_Witness ==
    /\ resource = "policy" /\ last.op = "create"
    /\ last.calls /= << >> /\ last.calls[1].name = "CreatePolicyConfiguration"
    /\ FirstStatus = "failed"

\* C3: decoding (flattenSettings) the payload that expandSettings produces for
\* a scope list yields that scope list again: same entries, same order, in the
\* shape of the schema's scope entries.
C3_CodecRoundTrip ==
    codec.pc = "flattened" => codec.out = <<[scope |-> codec.s]>>

\* an import id is malformed: no "/", nothing before the first "/", nothing
\* after it, or no integer after it
Malformed(s) ==
    \/ \A i \in 1..Len(s) : s[i] /= "/"
    \/ (s /= << >> /\ s[1] = "/")
    \/ (s /= << >> /\ FirstSlash(s) = Len(s))
    \/ (FirstSlash(s) > 0 /\ ~AtoiOk(SubSeq(s, FirstSlash(s) + 1, Len(s))))

\* C4: the policy importer fails on every malformed import id and mutates
\* nothing: project-id attribute and identifier are as before the call.
C4_MalformedImportFails ==
    (resource = "policy" /\ last.op = "import" /\ Malformed(last.in.id))
    => /\ last.err /= ""
       /\ last.d = last.in
       /\ last.ret = << >>
       /\ last.calls = << >>
       /\ d = AbsentPolicy

C4_Witness ==
    /\ resource = "policy" /\ last.op = "import"
    /\ last.in.id = <<"p", "/", "1", "p">>
    /\ last.err /= ""

\* C5: the policy importer succeeds on every well-formed import id p/n (p
\* non-empty, split at the first "/", n an integer): project-id attribute p,
\* identifier n, exactly that resource returned, no remote call.
C5_WellFormedImport ==
    (resource = "policy" /\ last.op = "import" /\ ~Malformed(last.in.id))
    => /\ last.err = ""
       /\ last.d.project_id = SubSeq(last.in.id, 1, FirstSlash(last.in.id) - 1)
       /\ last.d.id = SubSeq(last.in.id, FirstSlash(last.in.id) + 1, Len(last.in.id))
       /\ last.d = [last.in EXCEPT !.project_id = last.d.project_id, !.id = last.d.id]
       /\ last.ret = <<last.d>>
       /\ last.calls = << >>
       /\ d = last.d

C5_Witness ==
    /\ resource = "policy" /\ last.op = "import"
    /\ last.in.id = <<"p", "/", "1", "1">>
    /\ d.id = <<"1", "1">> /\ d.project_id = <<"p">>

\* C6: a policy read right after a successful create finds the configuration
\* and leaves identifier and every attribute as create's flatten wrote them;
\* it returns no error whenever the remote answers the fetch.
C6_ReadAfterCreate ==
    (resource = "policy" /\ prev.op = "create" /\ prev.err = "" /\ last.op = "read")
    => /\ last.in = prev.d
       /\ FirstStatus \in {"ok", "failed"}
       /\ FirstStatus = "ok" => (last.err = "" /\ Flattened)
       /\ last.d = prev.d
       /\ d = prev.d

C6_Witness ==
    /\ resource = "policy" /\ prev.op = "create" /\ prev.err = ""
    /\ last.op = "read" /\ last.err = "" /\ Flattened

\* C7: after every successful policy create, read and update from schema-valid
\* attributes the settings attribute is one wrapper whose scope list holds at
\* least one entry.
C7_SettingsHaveAScope ==
    (resource = "policy" /\ last.op \in {"create", "read", "update"}
        /\ last.err = "" /\ last.d.id /= << >>)
    => /\ Len(last.d.settings) = 1
       /\ Len(last.d.settings[1].scope) >= 1

\* C8: an agent-pool update whose stored identifier does not parse as an
\* integer returns an error, issues no remote call and leaves attributes and
\* identifier as they were.
C8_PoolUpdateRejectsBadId ==
    (resource = "agent_pool" /\ last.op = "update" /\ ~AtoiOk(last.in.id))
    => /\ last.err /= ""
       /\ last.calls = << >>
       /\ last.d = last.in

C8_Witness ==
    /\ resource = "agent_pool" /\ last.op = "update"
    /\ ~AtoiOk(last.in.id) /\ last.in.id /= << >>

\* C9 as stated: every invocation of a lifecycle function issues at most one
\* remote client call.
C9_AtMostOneRemoteCall ==
    last.op \in LifecycleOps => Len(RemoteCalls(last.calls)) <= 1

\* C9 as amended: at most one remote call, except agent-pool create and update,
\* which issue at most two: the mutating call and, once it succeeded, the
\* fetch of the read they end in.
C9_RemoteCallsPerInvocation ==
    last.op \in LifecycleOps
    => IF resource = "agent_pool" /\ last.op \in {"create", "update"}
       THEN /\ Len(RemoteCalls(last.calls)) <= 2
            /\ Len(RemoteCalls(last.calls)) = 2
                 => /\ RemoteCalls(last.calls)[1].status = "ok"
                    /\ RemoteCalls(last.calls)[2].name = "GetAgentPool"
       ELSE Len(RemoteCalls(last.calls)) <= 1

C9_Witness ==
    /\ resource = "agent_pool" /\ last.op = "create"
    /\ Len(RemoteCalls(last.calls)) = 2

\* C10: an agent-pool read whose remote fetch reports "not found" clears the
\* identifier and returns no error.
C10_PoolReadNotFound ==
    (resource = "agent_pool" /\ last.op = "read" /\ FirstStatus = "notfound")
    => /\ last.err = ""
       /\ last.d.id = << >>

====
